---- MODULE Spec2Model ----
(***************************************************************************)
(* A model of the grid-mix reallocation tools of olca-tools:               *)
(*   elci_to_rem.update_mix          (REC removal from a generation mix)   *)
(*   residual_grid_mix.run           (residual processes in a project)     *)
(*   energy_outlook.run              (outlook processes in a project)      *)
(*   campd_analyzer.analyze_df, query_epa_cams                             *)
(*   primary_fuel_finder.find_category_switches and its boiler twin        *)
(* Amounts are exact rationals [n, d]; the float NaN is the pair 0/0.      *)
(***************************************************************************)
EXTENDS Integers, FiniteSets, Sequences, TLC

VARIABLES
    df,           \* elci_to_rem: the generation mix data frame
    agg_df,       \* elci_to_rem: REC_FRAC per balancing authority (NaN: no row)
    rec_handler,  \* elci_to_rem: 'keep' or 'zero'
    mix_pc,       \* elci_to_rem: "start", "done" ("idle" in the other tools)
    project,      \* the openLCA project: the sequence of its processes
    res_df,       \* residual_grid_mix: the residual mix CSV as read
    matches,      \* run: the generation mix processes still to handle
    ba_ids,       \* run: original process id -> new process id
    run_pc,       \* run: "gen", "q1", "q2", "q3", "close", "closed" or an error
    aeo_csv,      \* energy_outlook: the AEO mix CSV file
    aeo_df,       \* energy_outlook: the outlook mix rows with their 'Used' flags
    ba_dict,      \* energy_outlook: balancing authority name -> code
    runs,         \* energy_outlook: the runs finished on the project
    mix_call,     \* elci_to_rem: the arguments of a call of update_mix
    mix_raised,   \* elci_to_rem: the exception the call ended with
    campd_df,     \* campd_analyzer: the data frame given to analyze_df
    campd_result, \* campd_analyzer: what analyze_df returned or raised
    pivot_df,     \* primary_fuel_finder: the pivot table, ids by years
    switch_args,  \* primary_fuel_finder: from_category and to_category
    plant_switches,  \* primary_fuel_finder: result of find_category_switches
    boiler_switches, \* primary_fuel_finder: result of find_boiler_category_switches
    cams_total,   \* campd_analyzer: the X-Total-Count of the EPA server
    cams          \* campd_analyzer: the variables of query_epa_cams

mix_vars == <<df, agg_df, rec_handler, mix_pc>>

run_vars == <<project, res_df, matches, ba_ids, run_pc>>

out_vars == <<aeo_csv, aeo_df, ba_dict, runs>>

call_vars == <<mix_call, mix_raised>>

campd_vars == <<campd_df, campd_result>>

pivot_vars == <<pivot_df, switch_args, plant_switches, boiler_switches>>

cams_vars == <<cams_total, cams>>

tool_vars == <<call_vars, campd_vars, pivot_vars, cams_vars>>

vars ==
    <<df, agg_df, rec_handler, mix_pc, project, res_df, matches, ba_ids, run_pc,
      aeo_csv, aeo_df, ba_dict, runs, mix_call, mix_raised,
      campd_df, campd_result,
      pivot_df, switch_args, plant_switches, boiler_switches,
      cams_total, cams>>

---------------------------------------------------------------------------
(* Bounds of the model *)

\* largest Electricity amount (MWh) of a generation-mix row
MaxElec == 2
\* largest REC amount (MWh) allocated to a balancing authority
MaxRec == 3

---------------------------------------------------------------------------
(* Exact arithmetic standing in for the floats of pandas *)

RECURSIVE GCD(_, _)
GCD(a, b) == IF b = 0 THEN a ELSE GCD(b, a % b)

Abs(x) == IF x < 0 THEN -x ELSE x

NaN == [n |-> 0, d |-> 0]

IsNaN(x) == x.d = 0

\* n/d in lowest terms, d > 0
Rat(n, d) ==
    LET g == GCD(Abs(n), Abs(d))
        s == IF d < 0 THEN -1 ELSE 1
    IN  IF d = 0 THEN NaN ELSE [n |-> s * (n \div g), d |-> s * (d \div g)]

Zero == Rat(0, 1)

One == Rat(1, 1)

FromInt(i) == Rat(i, 1)

RAdd(a, b) == IF IsNaN(a) \/ IsNaN(b) THEN NaN ELSE Rat(a.n * b.d + b.n * a.d, a.d * b.d)

RSub(a, b) == IF IsNaN(a) \/ IsNaN(b) THEN NaN ELSE Rat(a.n * b.d - b.n * a.d, a.d * b.d)

RMul(a, b) == IF IsNaN(a) \/ IsNaN(b) THEN NaN ELSE Rat(a.n * b.n, a.d * b.d)

\* a / b; 0/0 is NaN (amounts are never negative, so x/0 with x # 0 does not arise)
RDiv(a, b) == IF IsNaN(a) \/ IsNaN(b) THEN NaN ELSE Rat(a.n * b.d, a.d * b.n)

\* a > b as floats compare: FALSE when either side is NaN
RGt(a, b) == ~IsNaN(a) /\ ~IsNaN(b) /\ a.n * b.d > b.n * a.d

\* Python's max(0.0, x): x only when x > 0.0
RMax0(x) == IF RGt(x, Zero) THEN x ELSE Zero

RECURSIVE RSum(_, _)
\* sum of f[k] over the keys k of S, NaN entries skipped as pandas' sum() does
RSum(f, S) ==
    IF S = {} THEN Zero
    ELSE LET k == CHOOSE x \in S : TRUE
         IN  RAdd(IF IsNaN(f[k]) THEN Zero ELSE f[k], RSum(f, S \ {k}))

---------------------------------------------------------------------------
(* elci_to_rem.py *)

GREEN_E == {"SOLAR", "WIND"}

OVERFLOW_E == {"MIXED"}

\* the (Subregion, FuelCategory) rows a generation mix may hold
MixKeys == ({"BA1"} \X {"SOLAR", "WIND", "COAL", "MIXED"}) \cup ({"BA2"} \X {"WIND"})

Subregions(d) == {k[1] : k \in DOMAIN d}

\* df.query("(FuelCategory [not] in @GREEN_E) & (Subregion == @baa)")
QueryRows(d, baa, green) ==
    {k \in DOMAIN d : k[1] = baa /\ ((k[2] \in GREEN_E) <=> green)}

Column(d, S, col) == [k \in S |-> d[k][col]]

\* calc_relative_ratio(df, add_total=True) on the rows S of d
calc_relative_ratio(d, S) ==
    LET total_e == RSum(Column(d, S, "Electricity"), S)
    IN  [k \in S |-> [Relative_Ratio |-> RDiv(d[k].Electricity, total_e),
                      Relative_Total |-> total_e]]

\* df.update(other, overwrite=True) of one cell: NA values of other are not used
UpdateCell(old, new) == IF IsNaN(new) THEN old ELSE new

\* the get_elci_mix data frame of the Electricity amounts e (a function on rows)
MixFrame(e) ==
    [k \in DOMAIN e |->
        LET S == {j \in DOMAIN e : j[1] = k[1]}
            t == RSum([j \in S |-> FromInt(e[j])], S)
        IN  [Electricity |-> FromInt(e[k]),
             Generation_Ratio |-> RDiv(FromInt(e[k]), t)]]

\* lines 1332-1333: the new columns start as copies of the old ones
InitColumns(d) ==
    [k \in DOMAIN d |->
        [Electricity |-> d[k].Electricity,
         Generation_Ratio |-> d[k].Generation_Ratio,
         Electricity_new |-> d[k].Electricity,
         Gen_Ratio_new |-> d[k].Generation_Ratio]]

\* mutant: the excess is taken from the non-green rows whatever the handler
ExcessAlwaysKeep(handler, has_ofe, ng, big_g, rec_t) ==
    IF has_ofe
    THEN <<Zero, RMax0(RSub(ng, RSub(rec_t, big_g)))>>
    ELSE <<Zero, ng>>

\* mutant: 'keep' takes the excess without looking for a MIXED/OTHF row
ExcessNoOverflowCheck(handler, has_ofe, ng, big_g, rec_t) ==
    IF handler = "keep"
    THEN <<Zero, RMax0(RSub(ng, RSub(rec_t, big_g)))>>
    ELSE <<Zero, ng>>

\* lines 1397-1409, the excess branch of one loop pass: <<gx, ngx>> when
\* rec_t > big_g
ExcessKeepZero(handler, has_ofe, ng, big_g, rec_t) ==
    IF handler = "keep" /\ has_ofe
    THEN <<Zero, RMax0(RSub(ng, RSub(rec_t, big_g)))>>
    ELSE <<Zero, ng>>

\* one pass of the for-loop of update_mix (lines 1344-1426) for authority baa
UpdateBaa(d, baa, agg, handler) ==
    LET ngS == QueryRows(d, baa, FALSE)
        gS == QueryRows(d, baa, TRUE)
        ng_df == calc_relative_ratio(d, ngS)
        g_df == calc_relative_ratio(d, gS)
        ng == IF ngS # {} THEN ng_df[CHOOSE k \in ngS : TRUE].Relative_Total ELSE Zero
        big_g == IF gS # {} THEN g_df[CHOOSE k \in gS : TRUE].Relative_Total ELSE Zero
        \* left merge on BA_CODE: REC_FRAC is NaN when agg_df has no row
        rec_t == agg[baa]
        has_ofe == \E k \in ngS : k[2] \in OVERFLOW_E
        pair == IF gS = {} THEN <<Zero, ng>>
                ELSE IF RGt(rec_t, big_g)
                     THEN ExcessKeepZero(handler, has_ofe, ng, big_g, rec_t)
                     ELSE <<RSub(big_g, rec_t), ng>>
        gx == pair[1]
        ngx == pair[2]
        non_rec == RAdd(gx, ngx)
        NewRow(k, ratio, x) ==
            LET e_new == RMul(ratio, x)
                r_new == IF RGt(non_rec, Zero) THEN RDiv(e_new, non_rec) ELSE Zero
            IN  [Electricity |-> d[k].Electricity,
                 Generation_Ratio |-> d[k].Generation_Ratio,
                 Electricity_new |-> UpdateCell(d[k].Electricity_new, e_new),
                 Gen_Ratio_new |-> UpdateCell(d[k].Gen_Ratio_new, r_new)]
    IN  [k \in DOMAIN d |->
            IF k \in ngS THEN NewRow(k, ng_df[k].Relative_Ratio, ngx)
            ELSE IF k \in gS THEN NewRow(k, g_df[k].Relative_Ratio, gx)
            ELSE d[k]]

RECURSIVE LoopBaa(_, _, _, _)
\* for baa in df['Subregion'].unique(): ...
LoopBaa(d, todo, agg, handler) ==
    IF todo = {} THEN d
    ELSE LET baa == CHOOSE b \in todo : TRUE
         IN  LoopBaa(UpdateBaa(d, baa, agg, handler), todo \ {baa}, agg, handler)

\* update_mix(df, rec_handler=handler) with the REC aggregate agg
update_mix(d, agg, handler) ==
    LoopBaa(InitColumns(d), Subregions(d), agg, handler)

\* the REC_FRAC a balancing authority gets from the merge with agg_df
RecValues == {FromInt(i) : i \in 0..MaxRec} \cup {NaN}

\* the Electricity columns of a generation mix: every balancing authority
\* listed generates something (its Generation_Ratio values are defined)
ElecFrames ==
    {e \in UNION {[S -> 0..MaxElec] : S \in (SUBSET MixKeys) \ {{}}} :
        \A k \in DOMAIN e : \E j \in DOMAIN e : j[1] = k[1] /\ e[j] > 0}

\* no call of update_mix is looked at
CallIdle ==
    /\ mix_call = <<>>
    /\ mix_raised = "idle"

\* analyze_df is not in use
CampdIdle ==
    /\ campd_df = <<>>
    /\ campd_result = [kind |-> "idle"]

\* the category switch functions are not in use
PivotIdle ==
    /\ pivot_df = <<>>
    /\ switch_args = <<>>
    /\ plant_switches = [done |-> FALSE]
    /\ boiler_switches = [done |-> FALSE]

\* query_epa_cams is not in use
CamsIdle ==
    /\ cams_total = 0
    /\ cams = [pc |-> "idle"]

\* the other tools are not in use
ToolIdle == CallIdle /\ CampdIdle /\ PivotIdle /\ CamsIdle

\* no outlook data is loaded
OutIdle ==
    /\ aeo_csv = <<>>
    /\ aeo_df = <<>>
    /\ ba_dict = <<>>
    /\ runs = 0

\* no openLCA run is in progress
RunIdle ==
    /\ project = <<>>
    /\ res_df = <<>>
    /\ matches = <<>>
    /\ ba_ids = <<>>
    /\ run_pc = "idle"
    /\ OutIdle

MixInit ==
    /\ \E e \in ElecFrames : df = MixFrame(e)
    /\ agg_df \in [{"BA1", "BA2"} -> RecValues]
    /\ rec_handler \in {"keep", "zero"}
    /\ mix_pc = "start"
    /\ RunIdle
    /\ ToolIdle

UpdateMix ==
    /\ mix_pc = "start"
    /\ df' = update_mix(df, agg_df, rec_handler)
    /\ mix_pc' = "done"
    /\ UNCHANGED <<agg_df, rec_handler>>
    /\ UNCHANGED run_vars
    /\ UNCHANGED out_vars
    /\ UNCHANGED tool_vars

MixNext == UpdateMix

MixSpec == MixInit /\ [][MixNext]_vars

---------------------------------------------------------------------------
(* Claims about update_mix *)

GreenRows(baa) == QueryRows(df, baa, TRUE)

NonGreenRows(baa) == QueryRows(df, baa, FALSE)

BaRows(baa) == {k \in DOMAIN df : k[1] = baa}

SumOld(S) == RSum(Column(df, S, "Electricity"), S)

SumNew(S) == RSum(Column(df, S, "Electricity_new"), S)

\* the authority has green rows and the REC aggregate has an amount for it
HasGreenAndRec(baa) == GreenRows(baa) # {} /\ ~IsNaN(agg_df[baa])

HasOverflowRow(baa) == \E k \in NonGreenRows(baa) : k[2] \in OVERFLOW_E

\* C1: with rec_handler 'zero', every authority with green rows and a REC
\* amount R ends with green Electricity_new summing to max(0, G - R) and
\* every non-green row's Electricity_new equal to its Electricity.
C1_ZeroFloorsGreen ==
    (mix_pc = "done" /\ rec_handler = "zero") =>
        \A baa \in Subregions(df) :
            HasGreenAndRec(baa) =>
                /\ SumNew(GreenRows(baa))
                       = RMax0(RSub(SumOld(GreenRows(baa)), agg_df[baa]))
                /\ \A k \in NonGreenRows(baa) :
                       df[k].Electricity_new = df[k].Electricity

\* a 'zero' run where the REC amount exceeds a positive green generation of
\* an authority that also has a non-green overflow row with generation
C1_Witness ==
    /\ mix_pc = "done" /\ rec_handler = "zero"
    /\ HasGreenAndRec("BA1") /\ HasOverflowRow("BA1")
    /\ Cardinality(GreenRows("BA1")) = 2
    /\ RGt(SumOld(GreenRows("BA1")), Zero)
    /\ RGt(agg_df["BA1"], SumOld(GreenRows("BA1")))
    /\ RGt(SumOld(NonGreenRows("BA1")), Zero)

C3_GenRatioIsShare ==
    mix_pc = "done" =>
        \A k \in DOMAIN df :
            LET t == SumNew(BaRows(k[1]))
            IN  df[k].Gen_Ratio_new =
                    IF RGt(t, Zero) THEN RDiv(df[k].Electricity_new, t) ELSE Zero

\* the same, for the authorities that have no green row or have a REC amount
C3_Probe ==
    mix_pc = "done" =>
        \A k \in DOMAIN df :
            (GreenRows(k[1]) = {} \/ ~IsNaN(agg_df[k[1]])) =>
                LET t == SumNew(BaRows(k[1]))
                IN  df[k].Gen_Ratio_new =
                        IF RGt(t, Zero) THEN RDiv(df[k].Electricity_new, t) ELSE Zero

---------------------------------------------------------------------------
(* The openLCA project: olca-schema processes reached through NetlOlca *)

\* most generation mix processes of a project
MaxGen == 2
\* most consumption mix processes of a project
MaxCons == 2

\* no process (process ids are positions, from 1)
None == 0

\* the description 'from FUEL - BA' of an input exchange
FromDesc(fuel, ba) == [from |-> TRUE, fuel |-> fuel, rest |-> ba]

\* any other description text
NoDesc == [from |-> FALSE, fuel |-> "", rest |-> ""]

\* q = re.compile("^from (\\w+) - (.*)$"); f_name = r.group(1), "" without a match
ParseFuel(desc) == IF desc.from /\ desc.fuel # "" THEN desc.fuel ELSE ""

\* 'Electricity; at grid; [label] generation mix - BA'
GenName(ba) == [tier |-> "generation", label |-> "", scope |-> "BA", region |-> ba]

\* 'Electricity; at grid; [label] consumption mix - REGION - US/FERC/BA'
ConsName(scope, region) ==
    [tier |-> "consumption", label |-> "", scope |-> scope, region |-> region]

OtherName == [tier |-> "other", label |-> "", scope |-> "BA", region |-> "import"]

\* make_residual_process_name / make_forecast_process_name: the label goes
\* in front of the mix tier; a name of another tier raises ValueError
make_process_name(p_name, label, is_gen) ==
    IF p_name.label = ""
       /\ p_name.tier = (IF is_gen THEN "generation" ELSE "consumption")
    THEN [p_name EXCEPT !.label = label]
    ELSE "ValueError"

\* get_new_process: a copy of process pid under its new name
get_new_process(proj, pid, label, is_gen) ==
    [name |-> make_process_name(proj[pid].name, label, is_gen),
     exchanges |-> proj[pid].exchanges]

\* netl.add(p_new): the project gains the process; its id is its position
netl_add(proj, p_new) == Append(proj, p_new)

Ids(proj) == [i \in 1..Len(proj) |-> i]

\* netl.get_electricity_gen_processes(): the original generation mixes
get_electricity_gen_processes(proj) ==
    LET IsGen(i) == proj[i].name.tier = "generation" /\ proj[i].name.label = ""
    IN  SelectSeq(Ids(proj), IsGen)

\* the scope the patterns q1, q2 and q3 of run end with
QueryScope(q) == IF q = "q1" THEN "US" ELSE IF q = "q2" THEN "FERC" ELSE "BA"

\* netl.match_process_names(q) for the consumption mix patterns of run
match_process_names(proj, q) ==
    LET Hit(i) == /\ proj[i].name.tier = "consumption"
                  /\ proj[i].name.label = ""
                  /\ proj[i].name.scope = QueryScope(q)
    IN  SelectSeq(Ids(proj), Hit)

---------------------------------------------------------------------------
(* residual_grid_mix.py *)

\* thresh = 0.001 is 1/ThreshDen
ThreshDen == 1000

\* test_s2 for one process: FALSE when abs(inputs - outputs) > thresh
test_s2(p) ==
    LET ex == p.exchanges
        ins == {i \in DOMAIN ex : ex[i].is_input}
        outs == {i \in DOMAIN ex : ~ex[i].is_input}
        amount == [i \in DOMAIN ex |-> ex[i].amount]
        diff == RSub(RSum(amount, ins), RSum(amount, outs))
        abs_diff == IF RGt(Zero, diff) THEN RSub(Zero, diff) ELSE diff
    IN  ~RGt(abs_diff, Rat(1, ThreshDen))

\* b = df.query("Subregion == ba")
RegionRows(data, ba) == {k \in DOMAIN data : k[1] = ba}

\* a = b.query("FuelCategory == f_name")
FuelRows(b, f_name) == {k \in b : k[2] = f_name}

\* mutant: a fuel missing for a known authority keeps its amount
ResidualAmountNoZero(data, ba, p_ex) ==
    LET b == RegionRows(data, ba)
        a == FuelRows(b, ParseFuel(p_ex.description))
    IN  IF Cardinality(a) = 1
        THEN data[CHOOSE k \in a : TRUE].Gen_Ratio_new
        ELSE p_ex.amount

\* lines 752-782: the amount an input exchange ends with
ResidualAmount(data, ba, p_ex) ==
    LET f_name == ParseFuel(p_ex.description)
        b == RegionRows(data, ba)
        a == FuelRows(b, f_name)
    IN  IF Cardinality(a) = 1
        THEN data[CHOOSE k \in a : TRUE].Gen_Ratio_new
        ELSE IF a = {} /\ b = {} THEN p_ex.amount
        ELSE IF a = {} THEN Zero
        ELSE p_ex.amount

update_exchange_to_residual(proj, pid, ba, data) ==
    LET p_new == get_new_process(proj, pid, "residual", TRUE)
        ex == p_new.exchanges
    IN  [name |-> p_new.name,
         exchanges |->
            [i \in DOMAIN ex |->
                IF ex[i].is_input
                THEN [ex[i] EXCEPT !.amount = ResidualAmount(data, ba, ex[i])]
                ELSE ex[i]]]

\* the first input exchange of ex whose provider cannot be replaced, 0 if none
FirstUnmapped(proj, ex, b_dict) ==
    LET bad == {i \in DOMAIN ex :
                    /\ ex[i].is_input
                    /\ \/ ex[i].default_provider = None
                       \/ ex[i].default_provider \notin DOMAIN b_dict
                       \/ b_dict[ex[i].default_provider] \notin DOMAIN proj}
    IN  IF bad = {} THEN 0 ELSE CHOOSE i \in bad : \A j \in bad : i <= j

RECURSIVE ProvidersLoop(_, _, _, _)
\* the for-loop of update_providers over the matched processes r;
\* error is the exception that left the loop, "none" when it ran to its end
ProvidersLoop(proj, r, b_dict, label) ==
    IF r = <<>> THEN [project |-> proj, error |-> "none"]
    ELSE LET p_new == get_new_process(proj, Head(r), label, FALSE)
             ex == p_new.exchanges
             i0 == FirstUnmapped(proj, ex, b_dict)
             mapped == [name |-> p_new.name,
                        exchanges |->
                           [i \in DOMAIN ex |->
                               IF ex[i].is_input
                               THEN [ex[i] EXCEPT !.default_provider =
                                         b_dict[ex[i].default_provider]]
                               ELSE ex[i]]]
         IN  IF i0 = 0
             THEN ProvidersLoop(netl_add(proj, mapped), Tail(r), b_dict, label)
             ELSE IF ex[i0].default_provider = None
                  \* p_ex.default_provider.id of None: not a KeyError
                  THEN [project |-> proj, error |-> "AttributeError"]
                  \* except KeyError: the process is skipped
                  ELSE ProvidersLoop(proj, Tail(r), b_dict, label)

update_providers(proj, q, b_dict, label) ==
    ProvidersLoop(proj, match_process_names(proj, q), b_dict, label)

NextQuery(q) == IF q = "q1" THEN "q2" ELSE IF q = "q2" THEN "q3" ELSE "close"

\* the residual mix CSV written from an update_mix result and read back
CsvFrame(d) == [k \in DOMAIN d |-> [Gen_Ratio_new |-> d[k].Gen_Ratio_new]]

ResKeySets ==
    {{<<"BA1", "SOLAR">>, <<"BA1", "COAL">>},
     {<<"BA1", "SOLAR">>, <<"BA1", "COAL">>, <<"BA2", "WIND">>}}

\* the residual mix files elci_to_rem writes for small generation mixes
ResidualFrames ==
    {CsvFrame(update_mix(MixFrame(e), agg, h)) :
        e \in {x \in ElecFrames : DOMAIN x \in ResKeySets},
        agg \in [{"BA1", "BA2"} -> RecValues],
        h \in {"keep", "zero"}}

\* the fuels of the input exchanges of a generation mix process ("" stands
\* for an input whose description is not 'from FUEL - BA')
FuelLists == {<<"SOLAR", "COAL">>, <<"COAL">>, <<"COAL", "GAS", "">>}

BaNames == <<"BA1", "BA2", "BA3">>

OutputExchange ==
    [is_input |-> FALSE, amount |-> One, description |-> NoDesc,
     default_provider |-> None]

InputExchange(amount, desc, provider) ==
    [is_input |-> TRUE, amount |-> amount, description |-> desc,
     default_provider |-> provider]

\* a generation mix process: one output of 1 MWh and one input per fuel
GenProcess(ba, fuels) ==
    [name |-> GenName(ba),
     exchanges |->
        <<OutputExchange>> \o
        [i \in 1..Len(fuels) |->
            InputExchange(Rat(1, Len(fuels)),
                          IF fuels[i] = "" THEN NoDesc ELSE FromDesc(fuels[i], ba),
                          None)]]

\* a consumption mix process: one output and one input per provider
ConsProcess(scope, region, providers) ==
    [name |-> ConsName(scope, region),
     exchanges |->
        <<OutputExchange>> \o
        [i \in 1..Len(providers) |->
            InputExchange(Rat(1, Len(providers)), NoDesc, providers[i])]]

OtherProcess == [name |-> OtherName, exchanges |-> <<OutputExchange>>]

\* the generation mix processes of a project: an assignment of fuels to
\* at most MaxGen of the authorities, in the order of BaNames
GenConfigs ==
    {g \in UNION {[S -> FuelLists] : S \in SUBSET {1, 2, 3}} :
        Cardinality(DOMAIN g) \in 1..MaxGen}

GenProcesses(g) ==
    LET In(i) == i \in DOMAIN g
        idx == SelectSeq(<<1, 2, 3>>, In)
    IN  [j \in 1..Len(idx) |-> GenProcess(BaNames[idx[j]], g[idx[j]])]

\* generation mixes, then an unrelated process, then the consumption mixes
Project(g, cons) == GenProcesses(g) \o <<OtherProcess>> \o cons

MixIdle ==
    /\ df = <<>>
    /\ agg_df = <<>>
    /\ rec_handler = "zero"
    /\ mix_pc = "idle"

\* a small project whose consumption mixes all have residual counterparts
ResCons(g) ==
    <<ConsProcess("US", "R1", <<1>>),
      ConsProcess("BA", "R2", <<1, Cardinality(DOMAIN g)>>)>>

ResInit ==
    /\ MixIdle
    /\ res_df \in ResidualFrames
    /\ \E g \in GenConfigs : project = Project(g, ResCons(g))
    /\ matches = <<>>
    /\ ba_ids = <<>>
    /\ run_pc = "start"
    /\ OutIdle
    /\ ToolIdle

\* run, lines 387-397: connect, read, and list the generation mixes
ResOpen ==
    /\ run_pc = "start"
    /\ matches' = get_electricity_gen_processes(project)
    /\ run_pc' = IF matches' = <<>> THEN "q1" ELSE "gen"
    /\ UNCHANGED <<project, res_df, ba_ids>>
    /\ UNCHANGED mix_vars
    /\ UNCHANGED tool_vars
    /\ UNCHANGED out_vars

\* one pass of the loop of run, lines 398-401: make_residual_gen
ResMakeGen ==
    /\ run_pc = "gen"
    /\ matches # <<>>
    /\ LET uid == Head(matches)
           p_new == update_exchange_to_residual(
                        project, uid, project[uid].name.region, res_df)
       IN  /\ project' = netl_add(project, p_new)
           /\ ba_ids' = (uid :> Len(project) + 1) @@ ba_ids
    /\ matches' = Tail(matches)
    /\ run_pc' = IF matches' = <<>> THEN "q1" ELSE "gen"
    /\ UNCHANGED res_df
    /\ UNCHANGED mix_vars
    /\ UNCHANGED tool_vars
    /\ UNCHANGED out_vars

\* one call of update_providers in run, lines 408-410
ResUpdateProviders ==
    /\ run_pc \in {"q1", "q2", "q3"}
    /\ LET r == update_providers(project, run_pc, ba_ids, "residual")
       IN  /\ project' = r.project
           /\ run_pc' = IF r.error = "none" THEN NextQuery(run_pc) ELSE r.error
    /\ UNCHANGED <<res_df, matches, ba_ids>>
    /\ UNCHANGED mix_vars
    /\ UNCHANGED tool_vars
    /\ UNCHANGED out_vars

\* run, lines 412-417: disconnect or close
ResClose ==
    /\ run_pc = "close"
    /\ run_pc' = "closed"
    /\ UNCHANGED <<project, res_df, matches, ba_ids>>
    /\ UNCHANGED mix_vars
    /\ UNCHANGED tool_vars
    /\ UNCHANGED out_vars

\* the default providers of the inputs of a consumption mix: the generation
\* mix (id 1), the unrelated process (id 2) or none
ProviderLists ==
    UNION {[1..n -> {1, 2, None}] : n \in 1..2}

RegionNames == <<"R1", "R2", "R3">>

\* the consumption mixes of a project: at most MaxCons, of any scope
ConsConfigs ==
    UNION {[1..n -> {"US", "FERC", "BA"} \X ProviderLists] : n \in 1..MaxCons}

ConsProcesses(c) ==
    [i \in 1..Len(c) |-> ConsProcess(c[i][1], RegionNames[i], c[i][2])]

\* a project with one generation mix and any consumption mixes
ProvInit ==
    /\ MixIdle
    /\ res_df \in {f \in ResidualFrames : \A k \in DOMAIN f : k[1] = "BA1" /\ f[k].Gen_Ratio_new = Rat(1, 2)}
    /\ \E c \in ConsConfigs :
           project = Project((1 :> <<"COAL">>), ConsProcesses(c))
    /\ matches = <<>>
    /\ ba_ids = <<>>
    /\ run_pc = "start"
    /\ OutIdle
    /\ ToolIdle

ResNext == ResOpen \/ ResMakeGen \/ ResUpdateProviders \/ ResClose

ResSpec == ResInit /\ [][ResNext]_vars

ProvSpec == ProvInit /\ [][ResNext]_vars

---------------------------------------------------------------------------
(* Claims about residual_grid_mix *)

\* the amount C4 gives an input exchange ex of the process of authority ba
C4_Amount(ba, ex) ==
    LET f == ParseFuel(ex.description)
    IN  IF <<ba, f>> \in DOMAIN res_df THEN res_df[<<ba, f>>].Gen_Ratio_new
        ELSE IF \E k \in DOMAIN res_df : k[1] = ba THEN Zero
        ELSE ex.amount

\* C4: every pass of make_residual_gen leaves the processes of the project
\* as they were and adds one copy of the generation mix process with the
\* same exchanges in the same order, output exchanges unchanged, and each
\* input exchange's amount set to the Gen_Ratio_new of its (authority,
\* fuel) row, to 0 when the authority has rows but none for the fuel, and
\* left alone when the authority has no rows at all.
C4_ResidualExchanges ==
    [][(run_pc = "gen" /\ matches' # matches) =>
        LET uid == Head(matches)
            old == project[uid]
            new == project'[Len(project')]
        IN  /\ Len(project') = Len(project) + 1
            /\ \A i \in 1..Len(project) : project'[i] = project[i]
            /\ new.name = [old.name EXCEPT !.label = "residual"]
            /\ Len(new.exchanges) = Len(old.exchanges)
            /\ \A i \in 1..Len(old.exchanges) :
                   new.exchanges[i] =
                       IF old.exchanges[i].is_input
                       THEN [old.exchanges[i] EXCEPT
                                !.amount = C4_Amount(old.name.region, old.exchanges[i])]
                       ELSE old.exchanges[i]]_vars

\* a finished run that made a residual process with a replaced and a zeroed
\* input for an authority with rows
C4_Witness ==
    /\ run_pc = "closed"
    /\ \E uid \in DOMAIN ba_ids :
           LET old == project[uid]
               new == project[ba_ids[uid]]
           IN  /\ \E k \in DOMAIN res_df : k[1] = old.name.region
               /\ \E i \in DOMAIN old.exchanges :
                      /\ old.exchanges[i].is_input
                      /\ <<old.name.region, ParseFuel(old.exchanges[i].description)>>
                             \in DOMAIN res_df
                      /\ new.exchanges[i].amount # old.exchanges[i].amount
               /\ \E i \in DOMAIN old.exchanges :
                      /\ old.exchanges[i].is_input
                      /\ old.exchanges[i].description.fuel = "GAS"
                      /\ new.exchanges[i].amount = Zero

\* C5: every residual generation mix process created by run has input
\* amounts that sum to its output amount within 0.001 (what test_s2 checks).
C5_ResidualBalanced ==
    \A uid \in DOMAIN ba_ids :
        (run_pc \notin {"idle", "start"} /\ res_df # <<>>) => test_s2(project[ba_ids[uid]])

\* the consumption mix processes the project started with
ConsOriginals ==
    {i \in 1..Len(project) :
        project[i].name.tier = "consumption" /\ project[i].name.label = ""}

\* the residual copies of consumption mix c in the project
ResCopies(c) ==
    {i \in 1..Len(project) :
        project[i].name = [project[c].name EXCEPT !.label = "residual"]}

\* every input exchange of c has a default provider with a residual process
HasCounterparts(c) ==
    \A i \in DOMAIN project[c].exchanges :
        project[c].exchanges[i].is_input =>
            /\ project[c].exchanges[i].default_provider \in DOMAIN ba_ids
            /\ ba_ids[project[c].exchanges[i].default_provider] \in 1..Len(project)

\* the copy n of c has every input's default provider mapped through ba_ids
ProvidersMapped(c, n) ==
    /\ Len(project[n].exchanges) = Len(project[c].exchanges)
    /\ \A i \in DOMAIN project[c].exchanges :
           project[n].exchanges[i] =
               IF project[c].exchanges[i].is_input
               THEN [project[c].exchanges[i] EXCEPT
                        !.default_provider = ba_ids[project[c].exchanges[i].default_provider]]
               ELSE project[c].exchanges[i]

\* C9: update_providers is all-or-nothing per matched consumption mix: no
\* exception leaves it, and once the three calls are done a consumption mix
\* whose inputs all have counterparts has exactly one residual copy with
\* every default provider mapped, and any other has no copy at all.
C9_AllOrNothing ==
    /\ run_pc # "AttributeError"
    /\ run_pc \in {"close", "closed"} =>
           \A c \in ConsOriginals :
               IF HasCounterparts(c)
               THEN \E n \in ResCopies(c) : ResCopies(c) = {n} /\ ProvidersMapped(c, n)
               ELSE ResCopies(c) = {}

\* the same for projects in which every input has a default provider
C9_Probe ==
    (\A c \in ConsOriginals : \A i \in DOMAIN project[c].exchanges :
        project[c].exchanges[i].is_input =>
            project[c].exchanges[i].default_provider # None)
    => C9_AllOrNothing

\* a finished run that skipped one consumption mix and copied a later one
C9_ProbeWitness ==
    /\ run_pc = "closed"
    /\ \E c, e \in ConsOriginals :
           /\ c < e /\ project[c].name.scope = project[e].name.scope
           /\ ~HasCounterparts(c) /\ ResCopies(c) = {}
           /\ HasCounterparts(e) /\ ResCopies(e) # {}


---------------------------------------------------------------------------
(* energy_outlook.py *)

\* most runs of energy_outlook.run on one project
MaxRuns == 2

\* the 'Fuel' column of the AEO CSV, in file order
AeoFuels == <<"Coal", "Solar", "Wind">>

\* the balancing authority columns of the AEO CSV, in file order
AeoColumns == <<"X", "Y">>

\* name.lower()
Lower(name) ==
    CASE name = "Coal" -> "coal"
      [] name = "Solar" -> "solar"
      [] name = "Wind" -> "wind"
      [] name = "Date" -> "date"
      [] name = "DATE" -> "date"
      [] name = "State" -> "state"
      [] OTHER -> name

\* some of the entries of fuel_dict
get_fuel_dict ==
    ("coal" :> "COAL") @@ ("gas" :> "GAS") @@ ("solar" :> "SOLAR")
        @@ ("wind" :> "WIND")

\* d.get(name.lower(), "")
convert_primary_fuel(name) ==
    LET n == Lower(name)
    IN  IF n \in DOMAIN get_fuel_dict THEN get_fuel_dict[n] ELSE ""

RECURSIVE ColumnRows(_, _, _)
\* the inner loop of get_outlook_mix over the fuel rows j of column code:
\* only a value above 0 becomes a row, with Used False
ColumnRows(csv, code, j) ==
    IF j > Len(AeoFuels) THEN <<>>
    ELSE (IF RGt(csv[code][j], Zero)
          THEN <<[Subregion |-> code,
                  FuelCategory |-> convert_primary_fuel(AeoFuels[j]),
                  Gen_Ratio_new |-> csv[code][j],
                  Used |-> FALSE]>>
          ELSE <<>>)
         \o ColumnRows(csv, code, j + 1)

RECURSIVE OutlookLoop(_, _)
\* the outer loop of get_outlook_mix over ba_list from column i
OutlookLoop(csv, i) ==
    IF i > Len(AeoColumns) THEN <<>>
    ELSE ColumnRows(csv, AeoColumns[i], 1) \o OutlookLoop(csv, i + 1)

get_outlook_mix(csv) == OutlookLoop(csv, 1)

\* the rows (code, name) of ba_codes.csv: two names share the code X
BaCodesCsv == <<<<"X", "N1">>, <<"X", "N2">>, <<"Y", "N3">>>>

\* ba_dict[row.BA_Name] = ba_code for every row: the last row of a name wins
make_ba_dict ==
    LET names == {BaCodesCsv[i][2] : i \in DOMAIN BaCodesCsv}
        last(n) == CHOOSE i \in DOMAIN BaCodesCsv :
                       /\ BaCodesCsv[i][2] = n
                       /\ \A j \in DOMAIN BaCodesCsv :
                              BaCodesCsv[j][2] = n => j <= i
    IN  [n \in names |-> BaCodesCsv[last(n)][1]]

\* mutant: a name that is not in the map takes the first code of the file
BaCodeFirstColumn(ba, b_dict) ==
    IF ba \in DOMAIN b_dict THEN b_dict[ba] ELSE AeoColumns[1]

\* lines 626-634: ba_code = ba_dict[ba], with the KeyError fallback
BaCode(ba, b_dict) ==
    IF ba \in DOMAIN b_dict THEN b_dict[ba] ELSE "BA CODE NOT FOUND"

\* b = df.query("Subregion == ba_code")
OutlookRows(d, ba_code) ==
    LET InRegion(r) == r.Subregion = ba_code
    IN  SelectSeq(d, InRegion)

\* a = b.query("FuelCategory == f_name")
OutlookFuelRows(b, f_name) ==
    LET IsFuel(r) == r.FuelCategory = f_name
    IN  SelectSeq(b, IsFuel)

\* lines 671-691: the amount an input exchange ends with
OutlookAmount(b, p_ex) ==
    LET a == OutlookFuelRows(b, ParseFuel(p_ex.description))
    IN  IF Len(a) = 1 THEN a[1].Gen_Ratio_new
        ELSE IF Len(a) = 0 /\ Len(b) = 0 THEN p_ex.amount
        ELSE IF Len(a) = 0 THEN Zero
        ELSE p_ex.amount

\* mutant: an exchange that is set to zero is taken out of the list
OutlookExchangesDropZero(ex, b) ==
    LET Kept(p_ex) == ~(p_ex.is_input /\ Len(b) > 0
                        /\ Len(OutlookFuelRows(b, ParseFuel(p_ex.description))) = 0)
        kept == SelectSeq(ex, Kept)
    IN  [i \in DOMAIN kept |->
            IF kept[i].is_input
            THEN [kept[i] EXCEPT !.amount = OutlookAmount(b, kept[i])]
            ELSE kept[i]]

\* the loop of lines 653-691 over p_new.exchanges: the exchanges after it
OutlookExchanges(ex, b) ==
    [i \in DOMAIN ex |->
        IF ex[i].is_input
        THEN [ex[i] EXCEPT !.amount = OutlookAmount(b, ex[i])]
        ELSE ex[i]]

\* line 669 over the whole loop: the rows of ba_code whose fuel is the fuel
\* of an input exchange are flagged as used
MarkUsed(d, ba_code, ex) ==
    LET fuels == {ParseFuel(ex[i].description) :
                      i \in {j \in DOMAIN ex : ex[j].is_input}}
    IN  [i \in DOMAIN d |->
            IF d[i].Subregion = ba_code /\ d[i].FuelCategory \in fuels
            THEN [d[i] EXCEPT !.Used = TRUE]
            ELSE d[i]]

\* lines 693-710: one new input exchange without provider for every row of
\* ba_code that is not flagged as used
NewExchanges(d, ba_code, ba) ==
    LET Unused(r) == ~r.Used
        a == SelectSeq(OutlookRows(d, ba_code), Unused)
    IN  [i \in DOMAIN a |->
            InputExchange(a[i].Gen_Ratio_new,
                          FromDesc(a[i].FuelCategory, ba), None)]

update_exchange_to_outlook(proj, pid, ba, d, b_dict) ==
    LET p_new == get_new_process(proj, pid, "forecast", TRUE)
        ba_code == BaCode(ba, b_dict)
        b == OutlookRows(d, ba_code)
        d_new == MarkUsed(d, ba_code, p_new.exchanges)
    IN  [p_new |-> [name |-> p_new.name,
                    exchanges |-> OutlookExchanges(p_new.exchanges, b)
                                  \o NewExchanges(d_new, ba_code, ba)],
         df |-> d_new]

\* the id of the one process called name, None for no or several matches
find_new_process_id(proj, name) ==
    LET Named(i) == proj[i].name = name
        m == SelectSeq(Ids(proj), Named)
    IN  IF Len(m) = 1 THEN m[1] ELSE None

\* the fractions of Coal, Solar and Wind of one CSV column; a column of
\* zeros is an undefined balancing authority
ColumnMixes ==
    {<<One, Zero, Zero>>,
     <<Rat(1, 2), Rat(1, 2), Zero>>,
     <<Zero, Rat(1, 2), Rat(1, 2)>>,
     <<Zero, Zero, Zero>>}

\* the AEO mix files
AeoCsvs == [{AeoColumns[i] : i \in DOMAIN AeoColumns} -> ColumnMixes]

\* the authority names of the generation mixes: N4 is not in ba_codes.csv
OutBaNames == <<"N1", "N2", "N3", "N4">>

\* an assignment of fuels to at most MaxGen of the names of OutBaNames
OutGenConfigs ==
    {g \in UNION {[S -> FuelLists] : S \in SUBSET DOMAIN OutBaNames} :
        Cardinality(DOMAIN g) \in 1..MaxGen}

OutGenProcesses(g) ==
    LET In(i) == i \in DOMAIN g
        idx == SelectSeq(<<1, 2, 3, 4>>, In)
    IN  [j \in 1..Len(idx) |-> GenProcess(OutBaNames[idx[j]], g[idx[j]])]

OutInit ==
    /\ MixIdle
    /\ res_df = <<>>
    /\ aeo_csv \in AeoCsvs
    /\ aeo_df = <<>>
    /\ ba_dict = <<>>
    /\ runs = 0
    /\ \E g \in OutGenConfigs :
           project = OutGenProcesses(g) \o <<OtherProcess>> \o ResCons(g)
    /\ matches = <<>>
    /\ ba_ids = <<>>
    /\ run_pc = "start"
    /\ ToolIdle

\* run, lines 528-547, on a new project or on one a run has finished with:
\* read the project, the AEO CSV and the name-to-code map
OutOpen ==
    /\ run_pc \in {"start", "closed"}
    /\ runs < MaxRuns
    /\ aeo_df' = get_outlook_mix(aeo_csv)
    /\ ba_dict' = make_ba_dict
    /\ matches' = get_electricity_gen_processes(project)
    /\ ba_ids' = <<>>
    /\ run_pc' = IF matches' = <<>> THEN "q1" ELSE "gen"
    /\ UNCHANGED <<project, res_df, aeo_csv, runs>>
    /\ UNCHANGED mix_vars
    /\ UNCHANGED tool_vars

\* one pass of the loop of run, lines 548-551: make_outlook_gen
OutMakeGen ==
    /\ run_pc = "gen"
    /\ matches # <<>>
    /\ LET uid == Head(matches)
           r == update_exchange_to_outlook(
                    project, uid, project[uid].name.region, aeo_df, ba_dict)
           added == netl_add(project, r.p_new)
           new_id == find_new_process_id(added, r.p_new.name)
       IN  /\ project' = added
           /\ aeo_df' = r.df
           /\ IF new_id = None
              THEN /\ run_pc' = "IOError"
                   /\ UNCHANGED <<matches, ba_ids>>
              ELSE /\ ba_ids' = (uid :> new_id) @@ ba_ids
                   /\ matches' = Tail(matches)
                   /\ run_pc' = IF matches' = <<>> THEN "q1" ELSE "gen"
    /\ UNCHANGED <<res_df, aeo_csv, ba_dict, runs>>
    /\ UNCHANGED mix_vars
    /\ UNCHANGED tool_vars

\* one call of update_providers in run, lines 560-562
OutUpdateProviders ==
    /\ run_pc \in {"q1", "q2", "q3"}
    /\ LET r == update_providers(project, run_pc, ba_ids, "forecast")
       IN  /\ project' = r.project
           /\ run_pc' = IF r.error = "none" THEN NextQuery(run_pc) ELSE r.error
    /\ UNCHANGED <<res_df, matches, ba_ids>>
    /\ UNCHANGED out_vars
    /\ UNCHANGED mix_vars
    /\ UNCHANGED tool_vars

\* run, lines 564-569: disconnect or close
OutClose ==
    /\ run_pc = "close"
    /\ run_pc' = "closed"
    /\ runs' = runs + 1
    /\ UNCHANGED <<project, res_df, matches, ba_ids, aeo_csv, aeo_df, ba_dict>>
    /\ UNCHANGED mix_vars
    /\ UNCHANGED tool_vars

OutNext == OutOpen \/ OutMakeGen \/ OutUpdateProviders \/ OutClose

OutSpec == OutInit /\ [][OutNext]_vars

---------------------------------------------------------------------------
(* Claims about energy_outlook *)

\* the generation mixes make_outlook_gen has finished in the current run
Handled == DOMAIN ba_ids

\* the outlook rows of the code of the authority name ba
CodeRows(ba) == OutlookRows(aeo_df, ba_dict[ba])

\* the input exchanges of process p for the fuel f
FuelInputs(p, f) ==
    {i \in DOMAIN p.exchanges :
        p.exchanges[i].is_input /\ ParseFuel(p.exchanges[i].description) = f}

\* C6: every generation mix process handled in a run whose authority name
\* maps to a code with outlook rows has, in its new process and for every
\* outlook row of the code, an input exchange for the row's fuel, every
\* such exchange has the row's Gen_Ratio_new as amount, and a fuel the
\* original process did not have has exactly one such exchange.
C6_EveryRowHasExchange ==
    \A uid \in Handled :
        LET ba == project[uid].name.region
            new == project[ba_ids[uid]]
        IN  ba \in DOMAIN ba_dict =>
                \A k \in DOMAIN CodeRows(ba) :
                    LET row == CodeRows(ba)[k]
                        hits == FuelInputs(new, row.FuelCategory)
                    IN  /\ hits # {}
                        /\ \A i \in hits :
                               new.exchanges[i].amount = row.Gen_Ratio_new
                        /\ FuelInputs(project[uid], row.FuelCategory) = {}
                               => Cardinality(hits) = 1

\* the two generation mixes handled so far have different codes
C6_NoSharedCode ==
    \A u, v \in Handled :
        LET a == project[u].name.region
            b == project[v].name.region
        IN  (u # v /\ a \in DOMAIN ba_dict /\ b \in DOMAIN ba_dict)
                => ba_dict[a] # ba_dict[b]

\* C6 for the runs in which no two handled names map to the same code
C6_Probe == C6_NoSharedCode => C6_EveryRowHasExchange

\* an exchange with its amount left aside
SansAmount(p_ex) == [p_ex EXCEPT !.amount = Zero]

\* the input exchange p_ex of the process of a known authority name ba with
\* outlook rows has a fuel that is in none of the rows
FuelNotInOutlook(ba, p_ex) ==
    /\ p_ex.is_input
    /\ ba \in DOMAIN ba_dict
    /\ Len(CodeRows(ba)) > 0
    /\ Len(OutlookFuelRows(CodeRows(ba), ParseFuel(p_ex.description))) = 0

\* C7: every pass of make_outlook_gen adds a process that has at least as
\* many exchanges as the original, with every original exchange at its
\* position and changed in its amount at most, and an input exchange whose
\* fuel is not in the outlook data of a known balancing authority is there
\* with amount 0.
C7_NoExchangeRemoved ==
    [][(run_pc = "gen" /\ project' # project) =>
        LET old == project[Head(matches)]
            new == project'[Len(project')]
        IN  /\ Len(new.exchanges) >= Len(old.exchanges)
            /\ \A i \in DOMAIN old.exchanges :
                   /\ SansAmount(new.exchanges[i]) = SansAmount(old.exchanges[i])
                   /\ FuelNotInOutlook(old.name.region, old.exchanges[i])
                          => new.exchanges[i].amount = Zero]_vars

\* a handled process of a known authority had an input with a fuel that is
\* not in the outlook data, and its new process has it at the same position
\* with amount 0
C7_Witness ==
    \E uid \in Handled :
        \E i \in DOMAIN project[uid].exchanges :
            /\ FuelNotInOutlook(project[uid].name.region, project[uid].exchanges[i])
            /\ project[uid].exchanges[i].amount # Zero
            /\ project[ba_ids[uid]].exchanges[i].amount = Zero
            /\ project[ba_ids[uid]].exchanges[i].description
                   = project[uid].exchanges[i].description

\* C8: a pass of make_outlook_gen for a process whose authority name is not
\* a key of the name-to-code map adds a process with exactly the exchanges of
\* the original (no amount replaced, no exchange appended) and changes no
\* 'Used' flag of the outlook data.
C8_UnknownNameKeepsAll ==
    [][(run_pc = "gen" /\ project' # project
            /\ project[Head(matches)].name.region \notin DOMAIN ba_dict) =>
        /\ project'[Len(project')].exchanges = project[Head(matches)].exchanges
        /\ aeo_df' = aeo_df]_vars

\* a process whose authority name is not in the map was handled while the
\* outlook data had rows, some of them not flagged as used
C8_Witness ==
    /\ ba_dict # <<>>
    /\ \E i \in DOMAIN aeo_df : ~aeo_df[i].Used
    /\ \E uid \in Handled :
           /\ project[uid].name.region \notin DOMAIN ba_dict
           /\ project[ba_ids[uid]].exchanges = project[uid].exchanges

\* the forecast generation mixes of the project made from the original uid
ForecastCopies(uid) ==
    {i \in DOMAIN project :
        project[i].name = make_process_name(project[uid].name, "forecast", TRUE)}

\* C10: no run of energy_outlook.run ends in an IOError, and when k runs
\* have finished on the project every original generation mix process has
\* k forecast instances.
C10_OneInstancePerRun ==
    /\ run_pc # "IOError"
    /\ run_pc = "closed" =>
           \A j \in DOMAIN get_electricity_gen_processes(project) :
               Cardinality(ForecastCopies(get_electricity_gen_processes(project)[j]))
                   = runs

\* C10 for the first run on a project
C10_Probe == runs = 0 => run_pc # "IOError"


---------------------------------------------------------------------------
(* elci_to_rem.py: the argument checks of update_mix *)

\* r_cols, line 1315
r_cols == {"Electricity", "Generation_Ratio", "Subregion"}

\* the fields the docstring of update_mix requires, lines 1272-1273
RequiredFields == {"Subregion", "Electricity", "Generation_Ratio", "FuelCategory"}

\* the columns lines 1332-1333 add to df
NewColumns == {"Electricity_new", "Gen_Ratio_new"}

\* the checks of update_mix and get_rec_agg in the order of the code, for
\* the call c; columns is the column set of df when the call ends. A query
\* on a column df does not have raises pandas' UndefinedVariableError.
update_mix_call(c) ==
    IF ~c.is_frame
    THEN [columns |-> c.columns, raised |-> "TypeError"]
    ELSE IF ~(r_cols \subseteq c.columns)
    THEN [columns |-> c.columns, raised |-> "IndexError"]
    ELSE IF c.rec_handler \notin {"keep", "zero"}
    THEN [columns |-> c.columns, raised |-> "ValueError"]
    ELSE LET cols == c.columns \cup NewColumns
         IN  IF c.agg_handler \notin {"area", "count"}
             THEN [columns |-> cols, raised |-> "ValueError"]
             ELSE IF c.has_rows /\ "FuelCategory" \notin cols
             THEN [columns |-> cols, raised |-> "UndefinedVariableError"]
             ELSE [columns |-> cols, raised |-> "none"]

\* the calls of update_mix: df is a data frame with some of the fields and
\* with or without rows, or another object; the two handlers are any text
CallArgs ==
    {[is_frame |-> f, columns |-> cols, has_rows |-> h,
      rec_handler |-> rh, agg_handler |-> ah] :
        f \in BOOLEAN, cols \in SUBSET RequiredFields, h \in BOOLEAN,
        rh \in {"keep", "zero", "drop"}, ah \in {"area", "count", "mean"}}

CallInit ==
    /\ MixIdle
    /\ RunIdle
    /\ mix_call \in {c \in CallArgs : ~c.is_frame => (c.columns = {} /\ ~c.has_rows)}
    /\ mix_raised = "pending"
    /\ CampdIdle
    /\ PivotIdle
    /\ CamsIdle

\* one call of update_mix, up to its first query on df
UpdateMixCall ==
    /\ mix_raised = "pending"
    /\ LET r == update_mix_call(mix_call)
       IN  /\ mix_call' = [mix_call EXCEPT !.columns = r.columns]
           /\ mix_raised' = r.raised
    /\ UNCHANGED mix_vars
    /\ UNCHANGED run_vars
    /\ UNCHANGED out_vars
    /\ UNCHANGED campd_vars
    /\ UNCHANGED pivot_vars
    /\ UNCHANGED cams_vars

CallNext == UpdateMixCall

CallSpec == CallInit /\ [][CallNext]_vars

---------------------------------------------------------------------------
(* Claims about the argument checks of update_mix *)

\* the call has ended
CallEnded == mix_raised \notin {"idle", "pending"}

\* C11: a call of update_mix ends with TypeError when df is not a data
\* frame, with IndexError when df is a data frame without one of the four
\* required fields, with ValueError when df has them and rec_handler or the
\* aggregation type is not valid, and whenever it ends with an exception
\* df has neither 'Electricity_new' nor 'Gen_Ratio_new'.
C11_RaisesAndKeepsFrame ==
    CallEnded =>
        /\ ~mix_call.is_frame => mix_raised = "TypeError"
        /\ (mix_call.is_frame /\ ~(RequiredFields \subseteq mix_call.columns))
               => mix_raised = "IndexError"
        /\ (/\ mix_call.is_frame
            /\ RequiredFields \subseteq mix_call.columns
            /\ \/ mix_call.rec_handler \notin {"keep", "zero"}
               \/ mix_call.agg_handler \notin {"area", "count"})
               => mix_raised = "ValueError"
        /\ mix_raised # "none" => mix_call.columns \cap NewColumns = {}

\* C11 for the three checks made before the columns are added: another
\* object, a frame without one of r_cols, and a rec_handler that is not valid
C11_Probe ==
    CallEnded =>
        /\ ~mix_call.is_frame => mix_raised = "TypeError"
        /\ (mix_call.is_frame /\ ~(r_cols \subseteq mix_call.columns))
               => mix_raised = "IndexError"
        /\ (/\ mix_call.is_frame
            /\ r_cols \subseteq mix_call.columns
            /\ mix_call.rec_handler \notin {"keep", "zero"})
               => mix_raised = "ValueError"
        /\ mix_raised \in {"TypeError", "IndexError"}
               => mix_call.columns \cap NewColumns = {}
        /\ (mix_raised = "ValueError" /\ mix_call.rec_handler \notin {"keep", "zero"})
               => mix_call.columns \cap NewColumns = {}


---------------------------------------------------------------------------
(* campd_analyzer.py: analyze_df *)

\* most rows of a data frame that repeat the date of another row
MaxDup == 1

all_months == <<1, 2, 3, 4, 5, 6, 7, 8, 9, 10, 11, 12>>

\* a value of the date column: fmt "T" is '%Y-%m-%dT%H:%M:%S+00', "D" is
\* '%Y-%m-%d', "bad" is anything else (other text, or not a string)
DateValue(fmt, month) == [fmt |-> fmt, year |-> 2020, month |-> month]

BadDate == [fmt |-> "bad", year |-> None, month |-> None]

\* the two strptime attempts; (None, None) when both fail
extract_year_month(d_str) ==
    IF d_str.fmt = "T" THEN <<d_str.year, d_str.month>>
    ELSE IF d_str.fmt = "D" THEN <<d_str.year, d_str.month>>
    ELSE <<None, None>>

\* find_column: the one column whose lower-case name is that of col_name
\* as <<name>>; <<>>, for None, when there is no such column or more than one
find_column(columns, col_name) ==
    LET my_col == {x \in columns : Lower(x) = Lower(col_name)}
    IN  IF Cardinality(my_col) = 1 THEN <<CHOOSE x \in my_col : TRUE>> ELSE <<>>

RECURSIVE RowCount(_, _)
\* len(df): the rows of the date values S, dates[v] rows for the value v
RowCount(dates, S) ==
    IF S = {} THEN 0
    ELSE LET v == CHOOSE x \in S : TRUE
         IN  dates[v] + RowCount(dates, S \ {v})

\* the values of np.unique([extract_year_month(x)[1] for x in df[date_col]])
UniqueMonths(dates) == {extract_year_month(v)[2] : v \in DOMAIN dates}

RECURSIVE SetSum(_)
SetSum(S) ==
    IF S = {} THEN 0
    ELSE LET v == CHOOSE x \in S : TRUE IN v + SetSum(S \ {v})

Tuple3(num_lines, num_missed, missed_mos) ==
    [kind |-> "tuple", num_lines |-> num_lines, num_missed |-> num_missed,
     missed_mos |-> missed_mos]

\* an end of analyze_df without a tuple: the exception e, or "None" for
\* the end of the function body
Raised(e) == [kind |-> e, num_lines |-> None, num_missed |-> 0, missed_mos |-> <<>>]

\* analyze_df for a data frame d. np.unique sorts the months and
\* months.sum() adds them: None next to an integer is a TypeError in both;
\* several None alone are a TypeError when the sort compares them
\* (sort_raises), and are one None that nothing is added to when it does not.
analyze_df(d, sort_raises) ==
    LET num_lines == RowCount(d.dates, DOMAIN d.dates)
        date_col == find_column(d.columns, "date")
        months == UniqueMonths(d.dates)
        ints == months \ {None}
        num_months == Cardinality(months)
        NotIn(x) == x \notin months
        missed_mos == SelectSeq(all_months, NotIn)
    IN  IF date_col = <<>> THEN Tuple3(None, 12, all_months)
        ELSE IF None \in months /\ ints # {} THEN Raised("TypeError")
        ELSE IF None \in months /\ num_lines > 1 /\ sort_raises
             THEN Raised("TypeError")
        ELSE IF num_months = 12 /\ SetSum(ints) = 78 THEN Tuple3(num_lines, 0, <<>>)
        ELSE IF num_months # 12 THEN Tuple3(num_lines, Len(missed_mos), missed_mos)
        ELSE Raised("None")

\* the date values a data frame may hold: every month in one of the two
\* formats, and one value that is no date
DateValues(fmt) == {DateValue(fmt, m) : m \in 1..12} \cup {BadDate}

\* the rows of a date column: one row per value of S and dup more rows with
\* the value w
DateRows(S, w, dup) == [v \in S |-> IF v = w THEN 1 + dup ELSE 1]

\* the data frames: with one date column and some rows, with no date column,
\* or with two columns called date
CampdFrames ==
    {[columns |-> c, dates |-> DateRows(S, w, dup)] :
        c \in {{"Date", "State"}, {"DATE"}},
        S \in UNION {SUBSET DateValues(f) : f \in {"T", "D"}},
        w \in {DateValue("T", 1), BadDate},
        dup \in 0..MaxDup}
    \cup
    {[columns |-> c, dates |-> DateRows(S, BadDate, 0)] :
        c \in {{"State"}, {"Date", "date"}},
        S \in {{}, {DateValue("T", 1)}}}

CampdInit ==
    /\ MixIdle
    /\ RunIdle
    /\ CallIdle
    /\ campd_df \in CampdFrames
    /\ campd_result = [kind |-> "pending"]
    /\ PivotIdle
    /\ CamsIdle

\* one call of analyze_df
AnalyzeDf ==
    /\ campd_result = [kind |-> "pending"]
    /\ \E sort_raises \in BOOLEAN :
           campd_result' = analyze_df(campd_df, sort_raises)
    /\ UNCHANGED campd_df
    /\ UNCHANGED mix_vars
    /\ UNCHANGED run_vars
    /\ UNCHANGED out_vars
    /\ UNCHANGED call_vars
    /\ UNCHANGED pivot_vars
    /\ UNCHANGED cams_vars

CampdNext == AnalyzeDf

CampdSpec == CampdInit /\ [][CampdNext]_vars

---------------------------------------------------------------------------
(* Claims about analyze_df *)

\* the months of 1..12 no row of the data frame has, in ascending order
MonthsWithoutRow ==
    LET NoRow(m) == \A v \in DOMAIN campd_df.dates :
                        extract_year_month(v)[2] # m
    IN  SelectSeq(all_months, NoRow)

\* C12: analyze_df returns a tuple of three for every data frame: with one
\* date column the number of rows, the number of months without a row and
\* the ascending list of those months (0 and the empty list when all twelve
\* months have rows); without a date column None, 12 and all twelve months.
C12_TupleOfThree ==
    campd_result.kind \notin {"idle", "pending"} =>
        IF find_column(campd_df.columns, "date") # <<>>
        THEN campd_result =
                 Tuple3(RowCount(campd_df.dates, DOMAIN campd_df.dates),
                        Len(MonthsWithoutRow), MonthsWithoutRow)
        ELSE campd_result = Tuple3(None, 12, all_months)

\* every value of the date column is a date in one of the two formats
AllDatesParse == \A v \in DOMAIN campd_df.dates : v.fmt \in {"T", "D"}

\* C12 for the data frames whose dates all parse
C12_Probe == AllDatesParse => C12_TupleOfThree


---------------------------------------------------------------------------
(* primary_fuel_finder.py: the category switch functions *)

\* most rows of a pivot table
MaxPlants == 2

\* the columns of the pivot table, the first of the years of run_plants
Years == <<2011, 2012, 2013>>

\* a cell without a category
NaNCell == "nan"

\* row.dropna().tolist()
dropna(cells) ==
    LET HasValue(c) == c # NaNCell
    IN  SelectSeq(cells, HasValue)

\* mutant: two equal adjacent categories count as a switch
IsSwitchOrSame(current_category, next_category, from_category, to_category) ==
    current_category = from_category /\ next_category = to_category

\* the condition of lines 342 and 389
IsSwitch(current_category, next_category, from_category, to_category) ==
    /\ current_category = from_category
    /\ next_category = to_category
    /\ current_category # next_category

\* the inner loop over range(len(categories_over_time) - 1) finds a switch
\* and breaks; a row with fewer than two categories is skipped
HasSwitch(row, from_category, to_category) ==
    LET categories_over_time == dropna(row.cells)
    IN  /\ Len(categories_over_time) >= 2
        /\ \E i \in 1..(Len(categories_over_time) - 1) :
               IsSwitch(categories_over_time[i], categories_over_time[i + 1],
                        from_category, to_category)

\* pd.DataFrame()
EmptyFrame == [columns |-> <<>>, rows |-> <<>>]

\* df.loc[ids]: for every label of ids, in their order, the rows of d that
\* have the label
RECURSIVE loc(_, _)
loc(d, ids) ==
    IF ids = <<>> THEN <<>>
    ELSE LET Labelled(r) == r.id = Head(ids)
         IN  SelectSeq(d.rows, Labelled) \o loc(d, Tail(ids))

\* find_category_switches, lines 361-405
find_category_switches(d, from_category, to_category) ==
    LET Switching(r) == HasSwitch(r, from_category, to_category)
        found == SelectSeq(d.rows, Switching)
        switching_plants == [i \in DOMAIN found |-> found[i].id]
    IN  IF switching_plants # <<>>
        THEN [columns |-> d.columns, rows |-> loc(d, switching_plants)]
        ELSE EmptyFrame

\* find_boiler_category_switches, lines 314-358
find_boiler_category_switches(d, from_category, to_category) ==
    LET Switching(r) == HasSwitch(r, from_category, to_category)
        found == SelectSeq(d.rows, Switching)
        switching_boilers == [i \in DOMAIN found |-> found[i].id]
    IN  IF switching_boilers # <<>>
        THEN [columns |-> d.columns, rows |-> loc(d, switching_boilers)]
        ELSE EmptyFrame

\* the categories of a cell
Categories == {"COAL", "GAS"}

\* the labels of the rows of a pivot table: df.pivot makes them unique
RowLabels == <<"P1", "P2", "P3", "P4">>

\* the pivot tables: at most MaxPlants rows, a category or nothing per year
PivotTables ==
    {[columns |-> Years,
      rows |-> [i \in 1..n |-> [id |-> RowLabels[i], cells |-> c[i]]]] :
        n \in 0..MaxPlants,
        c \in [1..MaxPlants -> [1..Len(Years) -> Categories \cup {NaNCell}]]}

PivotInit ==
    /\ MixIdle
    /\ RunIdle
    /\ CallIdle
    /\ CampdIdle
    /\ pivot_df \in PivotTables
    /\ switch_args \in (Categories \cup {"OIL"}) \X (Categories \cup {"OIL"})
    /\ plant_switches = [done |-> FALSE]
    /\ boiler_switches = [done |-> FALSE]
    /\ CamsIdle

FindCategorySwitches ==
    /\ ~plant_switches.done
    /\ plant_switches' =
           [done |-> TRUE,
            frame |-> find_category_switches(pivot_df, switch_args[1], switch_args[2])]
    /\ UNCHANGED <<pivot_df, switch_args, boiler_switches>>
    /\ UNCHANGED mix_vars
    /\ UNCHANGED run_vars
    /\ UNCHANGED out_vars
    /\ UNCHANGED call_vars
    /\ UNCHANGED campd_vars
    /\ UNCHANGED cams_vars

FindBoilerCategorySwitches ==
    /\ ~boiler_switches.done
    /\ boiler_switches' =
           [done |-> TRUE,
            frame |-> find_boiler_category_switches(
                          pivot_df, switch_args[1], switch_args[2])]
    /\ UNCHANGED <<pivot_df, switch_args, plant_switches>>
    /\ UNCHANGED mix_vars
    /\ UNCHANGED run_vars
    /\ UNCHANGED out_vars
    /\ UNCHANGED call_vars
    /\ UNCHANGED campd_vars
    /\ UNCHANGED cams_vars

PivotNext == FindCategorySwitches \/ FindBoilerCategorySwitches

PivotSpec == PivotInit /\ [][PivotNext]_vars


---------------------------------------------------------------------------
(* Claims about the category switch functions *)

\* the non-missing categories of the row, in year order, hold from_category
\* immediately followed by to_category
FromThenTo(r) ==
    LET seq == dropna(r.cells)
    IN  \E i \in DOMAIN seq :
            /\ i + 1 \in DOMAIN seq
            /\ seq[i] = switch_args[1]
            /\ seq[i + 1] = switch_args[2]

\* the rows C13 expects, in the row order of the pivot table
ExpectedSwitches ==
    IF switch_args[1] = switch_args[2] THEN <<>>
    ELSE SelectSeq(pivot_df.rows, FromThenTo)

---------------------------------------------------------------------------
(* campd_analyzer.py: query_epa_cams *)

\* most pages query_epa_cams asks for
MaxPages == 3

\* most records the server has for a state and month
MaxTotal == 4

\* records per page ('perPage' is 500)
PerPage == 2

\* API max retries parameter
max_tries == 4

\* the headers of a response with an X-Total-Count
Headers(total) == [has_total |-> TRUE, total |-> total]

\* h_dict = {}
NoHeaders == [has_total |-> FALSE, total |-> 0]

\* a record with a value in one of data_cols, and one with none
RecordKinds == {"data", "blank"}

\* what read_from_api may give for a page when recs_received records were
\* sent before: a full or last page of records, an empty page, or no page
\* after max_tries attempts (no X-Total-Count then); h_dict says whether
\* the headers have an X-Total-Count, and which
ApiResponses(total, recs_received) ==
    LET left == total - recs_received
        k == IF left > PerPage THEN PerPage ELSE left
    IN  {[js_list |-> l, url_tries |-> 1, h_dict |-> Headers(total),
          outcome |-> "data"] :
            l \in IF k > 0 THEN [1..k -> RecordKinds] ELSE {}}
        \cup {[js_list |-> <<>>, url_tries |-> 1, h_dict |-> Headers(total),
               outcome |-> "no_data"]}
        \cup {[js_list |-> <<>>, url_tries |-> max_tries, h_dict |-> NoHeaders,
               outcome |-> "failed"]}

\* lines 465-469: what the except clause puts in place of a response
ExceptionResponse ==
    [js_list |-> <<>>, url_tries |-> max_tries, h_dict |-> NoHeaders,
     outcome |-> "exception"]

\* int(h_dict.get('X-Total-Count', 0))
TotalCount(r) == IF r.h_dict.has_total THEN r.h_dict.total ELSE 0

\* lines 490-502: the data frame after a page
AddPage(d, r) ==
    IF Len(r.js_list) = 0 THEN d
    ELSE IF Len(d) = 0 THEN r.js_list
    ELSE d \o r.js_list

\* df.dropna(subset=data_cols, how='all')
dropna_all(d) ==
    LET HasData(x) == x = "data"
    IN  SelectSeq(d, HasData)

\* the condition of the while loop, line 443
MorePages(c) == c.recs_received < c.recs_total - 1

CamsInit ==
    /\ MixIdle
    /\ RunIdle
    /\ CallIdle
    /\ CampdIdle
    /\ PivotIdle
    /\ cams_total \in 0..MaxTotal
    /\ cams = [pc |-> "loop", recs_received |-> 0, recs_total |-> 2,
               page_no |-> 1, df |-> <<>>, last |-> "none"]

\* one pass of the while loop: the request of page page_no and what the
\* body does with its response
CamsRequest ==
    /\ cams.pc = "loop"
    /\ MorePages(cams)
    /\ cams.page_no <= MaxPages
    /\ \E r \in ApiResponses(cams_total, cams.recs_received) \cup {ExceptionResponse} :
           cams' = [pc |-> "loop",
                    recs_received |-> cams.recs_received + Len(r.js_list),
                    recs_total |-> TotalCount(r),
                    page_no |-> cams.page_no + 1,
                    df |-> AddPage(cams.df, r),
                    last |-> r.outcome]
    /\ UNCHANGED cams_total
    /\ UNCHANGED mix_vars
    /\ UNCHANGED run_vars
    /\ UNCHANGED out_vars
    /\ UNCHANGED call_vars
    /\ UNCHANGED campd_vars
    /\ UNCHANGED pivot_vars

\* the loop has ended: lines 515-527, the rows with data are returned
CamsReturn ==
    /\ cams.pc = "loop"
    /\ ~MorePages(cams)
    /\ cams' = [cams EXCEPT !.pc = "returned", !.df = dropna_all(cams.df)]
    /\ UNCHANGED cams_total
    /\ UNCHANGED mix_vars
    /\ UNCHANGED run_vars
    /\ UNCHANGED out_vars
    /\ UNCHANGED call_vars
    /\ UNCHANGED campd_vars
    /\ UNCHANGED pivot_vars

CamsNext == CamsRequest \/ CamsReturn

CamsSpec == CamsInit /\ [][CamsNext]_vars

---------------------------------------------------------------------------
(* Claims about query_epa_cams *)

\* the last request gave no data or failed
LastRequestBad == cams.pc = "loop" /\ cams.last \in {"no_data", "failed", "exception"}

\* C14: after a request that returned no data or failed (an exception, or
\* max_tries attempts used up) query_epa_cams asks for no further page: its
\* next step is the end of the loop, and it returns the records with data
\* it has received so far.
C14_StopsAfterBadRequest ==
    [][LastRequestBad =>
        /\ cams'.pc = "returned"
        /\ cams'.page_no = cams.page_no
        /\ cams'.df = dropna_all(cams.df)]_vars

\* C14 for the requests that failed: an exception or max_tries attempts
C14_Probe ==
    [][(cams.pc = "loop" /\ cams.last \in {"failed", "exception"}) =>
        /\ cams'.pc = "returned"
        /\ cams'.page_no = cams.page_no
        /\ cams'.df = dropna_all(cams.df)]_vars

====
